---- MODULE Spec2Model ----
(***************************************************************************)
(* Model of the spatial connection and graph-merge engine of               *)
(* GreenGraphConnected:                                                    *)
(*   - connections/pt_to_pt.py   PTWalkingConnectionBuilder                *)
(*   - connections/car_to_pt.py  CarToPTConnector                          *)
(*   - graph_integration/merge_graphs.py  create_combined_graph            *)
(*                                                                         *)
(* Coordinates are fixed-point: one unit is 1/DegScale of a degree.        *)
(* Distances are whole metres, times whole seconds.  Graphs are networkx   *)
(* DiGraphs: at most one edge per ordered pair, and add_edge on a pair     *)
(* that already has an edge UPDATES that edge's attribute dictionary.      *)
(* A Python dictionary is a function whose domain is the set of its keys.  *)
(***************************************************************************)
EXTENDS Integers, Sequences, FiniteSets, TLC

VARIABLES
    wNodes,     \* PT graph: node id -> node data (a dictionary, with or without lat and lon)
    wEdges,     \* PT graph: <<u, v>> -> edge attributes
    wPc,        \* position inside add_walking_edges
    wIds,       \* node_ids handed to add_connections
    wI,         \* index i of the outer loop of add_connections
    wCands,     \* indices still to visit in the inner loop (result of query_ball_point)
    wStats,     \* stats dictionary of add_connections
    wPairs,     \* pairs_added
    wResult,    \* value returned by add_walking_edges (NoResult until it returns)
    wRun,       \* number of the current call of add_walking_edges on this graph
    wPre,       \* edges of the graph when the current call started
    wCleared,   \* edges of the graph right after the clearing step of the current call
    wFirst,     \* [edges, result] at the return of the first call
    wFile,      \* the file at PT_GRAPH_PATH: the pickled graph and the number of writes
    cRoads,     \* car graph: road node id -> node data (a dictionary)
    cStations,  \* self.train_stations: the station records, in file order
    cPc,        \* position inside main of car_to_pt: build_spatial_index, find_connections
    cRoadNodes, \* self.road_nodes: ids of the indexed road nodes, in index order
    cK,         \* position of the station loop of find_connections
    cConns,     \* self.connections
    cCount,     \* [stations_connected, stations_too_far]
    cTooFar,    \* ids of the stations find_connections marked too far
    cError,     \* the exception that ended the stage (None while there is none)
    cFiles,     \* what main has written: the report, connections.json
    mPt,        \* G_pt: [nodes, edges]
    mCar,       \* G_car: [nodes, edges]
    mConns,     \* connections: the list loaded from connections.json
    mNodes,     \* G_combined: node id -> node data
    mEdges,     \* G_combined: <<u, v>> -> edge attributes
    mSeq,       \* G_combined: the edges in insertion order (the order of iteration)
    mPc,        \* position inside create_combined_graph
    mCur,       \* position of the loop under way
    mCount,     \* walking_edges_added, reverse_edges_added, connections_added
    mSynth      \* the reverse edges the backfill passes synthesized, with the
                \* edge_type of the edge each one reverses

wVars == <<wNodes, wEdges, wPc, wIds, wI, wCands, wStats, wPairs, wResult,
           wRun, wPre, wCleared, wFirst, wFile>>

cVars == <<cRoads, cStations, cPc, cRoadNodes, cK, cConns, cCount, cTooFar, cError,
           cFiles>>

mVars == <<mPt, mCar, mConns, mNodes, mEdges, mSeq, mPc, mCur, mCount, mSynth>>

vars == <<wVars, cVars, mVars>>

\* what a stage leaves alone: the state of the other stages
notWalk == <<cVars, mVars>>

notCar == <<wVars, mVars>>

notMerge == <<wVars, cVars>>

-----------------------------------------------------------------------------
(* Program constants *)

MAX_WALKING_DISTANCE_M == 300
METERS_PER_DEGREE == 111320
\* WALKING_SPEED = 1.4 m/s, kept as tenths of a metre per second
WALKING_SPEED_X10 == 14

(* Fixed-point resolution: coordinate units per degree *)
DegScale == 10^4

(* Bounds of the model *)
MaxPreEdges == 2      \* edges the PT graph holds before the walking connector runs
MaxRuns == 2          \* successive calls of add_walking_edges on one graph
MaxStations == 2      \* records in the station list
MaxPtEdges == 2       \* edges of the PT graph handed to the merge
MaxConns == 2         \* records in the connection list handed to the merge
FarUnits == 1000      \* coordinate difference beyond which geodesic saturates

-----------------------------------------------------------------------------
(* Arithmetic helpers *)

\* what dict.get returns for a missing key
None == "None"

Get(dict, key) == IF key \in DOMAIN dict THEN dict[key] ELSE None

Abs(x) == IF x < 0 THEN -x ELSE x

Min2(a, b) == IF a <= b THEN a ELSE b

RECURSIVE SqrtSearch(_, _, _)
SqrtSearch(n, lo, hi) ==
    IF lo >= hi THEN lo
    ELSE LET mid == (lo + hi + 1) \div 2
         IN  IF mid * mid <= n THEN SqrtSearch(n, mid, hi)
             ELSE SqrtSearch(n, lo, mid - 1)

ISqrt(n) == SqrtSearch(n, 0, 46340)

RECURSIVE SumSeq(_)
SumSeq(s) == IF s = <<>> THEN 0 ELSE Head(s) + SumSeq(Tail(s))

\* 1000 * cos(latitude), latitude in coordinate units (Bhaskara's rational
\* approximation on tenths of a degree; exact at 0, 60 and 90 degrees)
CosMilli(lat) ==
    LET t == (Abs(lat) * 10) \div DegScale
    IN  ((3240000 - 4 * t * t) * 100) \div ((3240000 + t * t) \div 10)

\* geopy.distance.geodesic(a, b).meters for nearby points: north-south metres
\* and east-west metres (shrunk by the cosine of the latitude), combined
geodesic(a, b) ==
    LET dlat == Abs(a.lat - b.lat)
        dlon == Abs(a.lon - b.lon)
    IN  IF dlat > FarUnits \/ dlon > FarUnits
        THEN (FarUnits * METERS_PER_DEGREE) \div DegScale
        ELSE LET north == (dlat * METERS_PER_DEGREE) \div DegScale
                 east  == (((dlon * METERS_PER_DEGREE) \div DegScale)
                            * CosMilli((a.lat + b.lat) \div 2)) \div 1000
             IN  ISqrt(north * north + east * east)

\* KDTree.query_ball_point membership: Euclidean distance in degrees <= r,
\* with r given in hundredths of a coordinate unit
InBall(a, b, r100) ==
    LET dlat == Abs(a.lat - b.lat)
        dlon == Abs(a.lon - b.lon)
    IN  /\ dlat <= r100 \div 100
        /\ dlon <= r100 \div 100
        /\ (dlat * 100) * (dlat * 100) + (dlon * 100) * (dlon * 100) <= r100 * r100

\* distance / self.walking_speed
WalkTime(distance) == (distance * 10) \div WALKING_SPEED_X10

-----------------------------------------------------------------------------
(* networkx.DiGraph edges: a function from ordered pairs to attribute records *)

NoEdges == [e \in {} |-> [mode |-> None]]

\* an empty attribute dictionary, and a graph without nodes
NoAttributes == [k \in {} |-> None]

NoNodes == [n \in {} |-> NoAttributes]

has_edge(E, u, v) == <<u, v>> \in DOMAIN E

\* DiGraph.add_edge(u, v, **attr): datadict = adj[u].get(v, {}); datadict.update(attr)
add_edge(E, u, v, attr) ==
    LET new == IF has_edge(E, u, v)
               THEN [k \in DOMAIN E[<<u, v>>] \cup DOMAIN attr |->
                        IF k \in DOMAIN attr THEN attr[k] ELSE E[<<u, v>>][k]]
               ELSE attr
    IN  [e \in DOMAIN E \cup {<<u, v>>} |-> IF e = <<u, v>> THEN new ELSE E[e]]

remove_edges(E, gone) == [e \in DOMAIN E \ gone |-> E[e]]

\* data.get('mode') == 'walk' and data.get('edge_type') == 'pt_transfer'
IsWalkTransfer(data) == Get(data, "mode") = "walk" /\ Get(data, "edge_type") = "pt_transfer"

-----------------------------------------------------------------------------
(* PT-to-PT walking connector: PTWalkingConnectionBuilder *)

\* Iteration order of graph.nodes(): the order in which the stops were inserted
StopOrder == <<"s1", "s2", "s3">>

Stops == {StopOrder[k] : k \in 1..Len(StopOrder)}

\* a node whose data holds neither 'lat' nor 'lon'
NoCoords == [name |-> "stop"]

Place(lat, lon) == [lat |-> lat, lon |-> lon]

\* Stops around latitude 38: 222 m, 333 m and 667 m north of the first one
WalkPlaces == {Place(380000, 0), Place(380020, 0), Place(380030, 0), Place(380060, 0)}

\* Stops spread over four degrees of latitude: one at latitude 36 and two at
\* latitude 40, the two 0.0035 degrees of longitude (297 m) apart
SpanPlaces == {Place(360000, 0), Place(400000, 0), Place(400000, 35)}

\* the node data the PT graph may hold
WalkNodeMaps == [Stops -> WalkPlaces \cup {NoCoords}] \cup [Stops -> SpanPlaces]

\* A scheduled service edge of the PT graph
BusEdge == [mode |-> "bus", edge_type |-> "network", distance |-> 400, time |-> 60,
            emissions |-> 5, route_type |-> 3]

\* A scheduled train edge
TrainEdge == [mode |-> "train", edge_type |-> "network", distance |-> 900, time |-> 70,
              emissions |-> 12, route_type |-> 2]

\* A walking edge left by an earlier run (made with a larger budget)
OldWalkEdge == [mode |-> "walk", edge_type |-> "pt_transfer", distance |-> 450,
                time |-> WalkTime(450), emissions |-> 0,
                walk_distance_m |-> 450, walk_time_min |-> 5]

StopPairs == {p \in Stops \X Stops : p[1] # p[2]}

PreEdgeSets == {S \in SUBSET StopPairs : Cardinality(S) <= MaxPreEdges}

ZeroStats == [edges_added |-> 0, unique_pairs |-> 0, nodes_checked |-> 0,
              skipped_existing |-> 0, skipped_too_far |-> 0]

NoResult == [pending |-> TRUE]

ZeroCount == [walking_edges_added |-> 0, reverse_edges_added |-> 0,
              connections_added |-> 0]

NoPtNodes == [error |-> "no_pt_nodes"]

\* there is no file at PT_GRAPH_PATH
NoGraphFile == [exists |-> FALSE, nodes |-> <<>>, edges |-> NoEdges, writes |-> 0]

\* the file at PT_GRAPH_PATH holds the pickled graph; writes counts pickle.dump
GraphFile(nodes, edges, writes) ==
    [exists |-> TRUE, nodes |-> nodes, edges |-> edges, writes |-> writes]

\* mutant of HasErrorKey: main does not look for the error key
HasErrorKey_Never(stats) == FALSE

\* main, line 287: "error" in stats
HasErrorKey(stats) == "error" \in DOMAIN stats

\* nothing written by the main of car_to_pt.py yet
NoFiles == [report |-> FALSE, connections_json |-> FALSE, connections |-> <<>>]

RECURSIVE SelectSeq2(_, _)
\* the elements of sequence s that are in set S, in the order of s
SelectSeq2(s, S) ==
    IF s = <<>> THEN <<>>
    ELSE IF Head(s) \in S THEN <<Head(s)>> \o SelectSeq2(Tail(s), S)
         ELSE SelectSeq2(Tail(s), S)

\* extract_pt_nodes: the nodes whose data holds both keys 'lat' and 'lon'
extract_pt_nodes(nodes) ==
    SelectSeq2(StopOrder, {n \in DOMAIN nodes : "lat" \in DOMAIN nodes[n] /\ "lon" \in DOMAIN nodes[n]})

\* np.mean(coords[:, 0])
MeanLat(nodes, ids) == SumSeq([k \in 1..Len(ids) |-> nodes[ids[k]].lat]) \div Len(ids)

\* search_radius_degrees of add_connections, in hundredths of a coordinate unit
SearchRadiusPT(nodes, ids, max_walk_distance) ==
    LET lat_avg == MeanLat(nodes, ids)
        meters_per_degree_lat == METERS_PER_DEGREE
        meters_per_degree_lon == (METERS_PER_DEGREE * CosMilli(lat_avg)) \div 1000
    IN  (max_walk_distance * DegScale * 100)
            \div Min2(meters_per_degree_lat, meters_per_degree_lon)

RECURSIVE IndicesInBall(_, _, _, _, _)
\* tree.query_ball_point(coords[i], r): the indices k..Len(ids) inside the ball
IndicesInBall(nodes, ids, center, r100, k) ==
    IF k > Len(ids) THEN <<>>
    ELSE (IF InBall(center, nodes[ids[k]], r100) THEN <<k>> ELSE <<>>)
            \o IndicesInBall(nodes, ids, center, r100, k + 1)

\* mutant of WalkingAttrs: the time is stored in minutes
WalkingAttrs_TimeInMinutes(distance) ==
    [mode |-> "walk", distance |-> distance, time |-> WalkTime(distance) \div 60,
     emissions |-> 0, edge_type |-> "pt_transfer",
     walk_distance_m |-> distance,
     walk_time_min |-> (WalkTime(distance) + 30) \div 60]

\* the attributes _add_walking_edge passes to graph.add_edge
WalkingAttrs(distance) ==
    [mode |-> "walk", distance |-> distance, time |-> WalkTime(distance),
     emissions |-> 0, edge_type |-> "pt_transfer",
     walk_distance_m |-> distance,
     walk_time_min |-> (WalkTime(distance) + 30) \div 60]

_add_walking_edge(E, source, target, distance) ==
    add_edge(E, source, target, WalkingAttrs(distance))

\* mutant of TooFar: no pair is ever beyond the budget
TooFar_Never(distance) == FALSE

\* add_connections, line 146: distance > self.max_walk_distance
TooFar(distance) == distance > MAX_WALKING_DISTANCE_M

\* mutant of EdgeAlreadyExists: no pair is ever skipped as already connected
EdgeAlreadyExists_Never(E, node_id, neighbor_id) == FALSE

\* the condition under which add_connections skips a pair as already connected
EdgeAlreadyExists(E, node_id, neighbor_id) == has_edge(E, node_id, neighbor_id)

\* mutant of edges_to_remove: the clearing loop collects nothing
edges_to_remove_Nothing(E) == {}

\* the edges the clearing loop of add_walking_edges collects
edges_to_remove(E) == {e \in DOMAIN E : IsWalkTransfer(E[e])}

\* the walking stage when another stage is under study: an empty graph, not run
WalkIdle ==
    /\ wNodes = <<>>
    /\ wEdges = NoEdges
    /\ wPc = "idle"
    /\ wIds = <<>>
    /\ wI = 0
    /\ wCands = <<>>
    /\ wStats = ZeroStats
    /\ wPairs = {}
    /\ wResult = NoResult
    /\ wRun = 1
    /\ wPre = NoEdges
    /\ wCleared = NoEdges
    /\ wFirst = NoResult
    /\ wFile = NoGraphFile

\* the car-to-PT stage when another stage is under study
CarIdle ==
    /\ cRoads = <<>>
    /\ cStations = <<>>
    /\ cPc = "idle"
    /\ cRoadNodes = <<>>
    /\ cK = 0
    /\ cConns = <<>>
    /\ cCount = [stations_connected |-> 0, stations_too_far |-> 0]
    /\ cTooFar = {}
    /\ cError = None
    /\ cFiles = NoFiles

\* the merge stage when another stage is under study
MergeIdle ==
    /\ mPt = [nodes |-> NoNodes, edges |-> NoEdges]
    /\ mCar = [nodes |-> NoNodes, edges |-> NoEdges]
    /\ mConns = <<>>
    /\ mNodes = NoNodes
    /\ mEdges = NoEdges
    /\ mSeq = <<>>
    /\ mPc = "idle"
    /\ mCur = [p |-> 0, q |-> 0]
    /\ mCount = ZeroCount
    /\ mSynth = {}

InitWalk ==
    /\ CarIdle
    /\ MergeIdle
    /\ \/ /\ wNodes \in WalkNodeMaps
          /\ \E S \in PreEdgeSets : wEdges \in [S -> {BusEdge, OldWalkEdge}]
          /\ wPc = "clear"
          /\ wFile = GraphFile(wNodes, wEdges, 0)
       \/ /\ wNodes = <<>>
          /\ wEdges = NoEdges
          /\ wPc = "load"
          /\ wFile = NoGraphFile
    /\ wIds = <<>>
    /\ wI = 0
    /\ wCands = <<>>
    /\ wStats = ZeroStats
    /\ wPairs = {}
    /\ wResult = NoResult
    /\ wRun = 1
    /\ wPre = wEdges
    /\ wCleared = wEdges
    /\ wFirst = NoResult

\* add_walking_edges, lines 42-52: clear the existing walking edges
ClearWalkingEdges ==
    /\ UNCHANGED <<notWalk, wFile>>
    /\ wPc = "clear"
    /\ wEdges' = remove_edges(wEdges, edges_to_remove(wEdges))
    /\ wCleared' = wEdges'
    /\ wPc' = "extract"
    /\ UNCHANGED <<wNodes, wIds, wI, wCands, wStats, wPairs, wResult, wRun, wPre, wFirst>>

\* add_walking_edges, lines 55-60: no node carries coordinates
ReturnNoPtNodes ==
    /\ UNCHANGED <<notWalk, wFile>>
    /\ wPc = "extract"
    /\ Len(extract_pt_nodes(wNodes)) = 0
    /\ wResult' = NoPtNodes
    /\ wPc' = "done"
    /\ UNCHANGED <<wNodes, wEdges, wIds, wI, wCands, wStats, wPairs, wRun, wPre,
                   wCleared, wFirst>>

\* add_walking_edges, lines 55-67, and add_connections, lines 111-127
BuildIndex ==
    /\ UNCHANGED <<notWalk, wFile>>
    /\ wPc = "extract"
    /\ Len(extract_pt_nodes(wNodes)) # 0
    /\ wIds' = extract_pt_nodes(wNodes)
    /\ wStats' = ZeroStats
    /\ wPairs' = {}
    /\ wI' = 1
    /\ wCands' = <<>>
    /\ wPc' = "node"
    /\ UNCHANGED <<wNodes, wEdges, wResult, wRun, wPre, wCleared, wFirst>>

\* add_connections, lines 131-135: next node of the outer loop, radius query
VisitNode ==
    /\ UNCHANGED <<notWalk, wFile>>
    /\ wPc = "node"
    /\ wI <= Len(wIds)
    /\ wStats' = [wStats EXCEPT !.nodes_checked = @ + 1]
    /\ wCands' = IndicesInBall(wNodes, wIds, wNodes[wIds[wI]],
                               SearchRadiusPT(wNodes, wIds, MAX_WALKING_DISTANCE_M), 1)
    /\ wPc' = "pair"
    /\ UNCHANGED <<wNodes, wEdges, wIds, wI, wPairs, wResult, wRun, wPre, wCleared, wFirst>>

\* add_connections, lines 138-139
SkipSelf ==
    /\ UNCHANGED <<notWalk, wFile>>
    /\ wPc = "pair"
    /\ wCands # <<>>
    /\ Head(wCands) = wI
    /\ wCands' = Tail(wCands)
    /\ UNCHANGED <<wNodes, wEdges, wPc, wIds, wI, wStats, wPairs, wResult, wRun, wPre,
                   wCleared, wFirst>>

\* add_connections, lines 144-149
SkipTooFar ==
    /\ UNCHANGED <<notWalk, wFile>>
    /\ wPc = "pair"
    /\ wCands # <<>>
    /\ Head(wCands) # wI
    /\ TooFar(geodesic(wNodes[wIds[wI]], wNodes[wIds[Head(wCands)]]))
    /\ wStats' = [wStats EXCEPT !.skipped_too_far = @ + 1]
    /\ wCands' = Tail(wCands)
    /\ UNCHANGED <<wNodes, wEdges, wPc, wIds, wI, wPairs, wResult, wRun, wPre,
                   wCleared, wFirst>>

\* add_connections, lines 151-154
SkipExisting ==
    /\ UNCHANGED <<notWalk, wFile>>
    /\ wPc = "pair"
    /\ wCands # <<>>
    /\ Head(wCands) # wI
    /\ ~TooFar(geodesic(wNodes[wIds[wI]], wNodes[wIds[Head(wCands)]]))
    /\ EdgeAlreadyExists(wEdges, wIds[wI], wIds[Head(wCands)])
    /\ wStats' = [wStats EXCEPT !.skipped_existing = @ + 1]
    /\ wCands' = Tail(wCands)
    /\ UNCHANGED <<wNodes, wEdges, wPc, wIds, wI, wPairs, wResult, wRun, wPre,
                   wCleared, wFirst>>

\* add_connections, lines 156-161
AddPair ==
    /\ UNCHANGED <<notWalk, wFile>>
    /\ wPc = "pair"
    /\ wCands # <<>>
    /\ Head(wCands) # wI
    /\ LET node_id == wIds[wI]
           neighbor_id == wIds[Head(wCands)]
           distance == geodesic(wNodes[node_id], wNodes[neighbor_id])
       IN  /\ ~TooFar(distance)
           /\ ~EdgeAlreadyExists(wEdges, node_id, neighbor_id)
           /\ wEdges' = _add_walking_edge(
                            _add_walking_edge(wEdges, node_id, neighbor_id, distance),
                            neighbor_id, node_id, distance)
           /\ wStats' = [wStats EXCEPT !.edges_added = @ + 2]
           /\ wPairs' = wPairs \cup {{node_id, neighbor_id}}
    /\ wCands' = Tail(wCands)
    /\ UNCHANGED <<wNodes, wPc, wIds, wI, wResult, wRun, wPre, wCleared, wFirst>>

\* add_connections: the inner loop is exhausted
NextNode ==
    /\ UNCHANGED <<notWalk, wFile>>
    /\ wPc = "pair"
    /\ wCands = <<>>
    /\ wI' = wI + 1
    /\ wPc' = "node"
    /\ UNCHANGED <<wNodes, wEdges, wIds, wCands, wStats, wPairs, wResult, wRun, wPre,
                   wCleared, wFirst>>

\* add_connections, lines 167-168, and add_walking_edges, lines 69-76
ReturnStats ==
    /\ UNCHANGED <<notWalk, wFile>>
    /\ wPc = "node"
    /\ wI > Len(wIds)
    /\ wStats' = [wStats EXCEPT !.unique_pairs = Cardinality(wPairs)]
    /\ wResult' = wStats'
    /\ wPc' = "done"
    /\ UNCHANGED <<wNodes, wEdges, wIds, wI, wCands, wPairs, wRun, wPre, wCleared, wFirst>>

\* the stage is run again on the graph it produced
RunAgain ==
    /\ UNCHANGED <<notWalk, wFile>>
    /\ wPc = "done"
    /\ wRun < MaxRuns
    /\ wFirst' = IF wRun = 1 THEN [edges |-> wEdges, result |-> wResult] ELSE wFirst
    /\ wRun' = wRun + 1
    /\ wPre' = wEdges
    /\ wCleared' = wEdges
    /\ wResult' = NoResult
    /\ wPc' = "clear"
    /\ wIds' = <<>>
    /\ wI' = 0
    /\ wCands' = <<>>
    /\ wStats' = ZeroStats
    /\ wPairs' = {}
    /\ UNCHANGED <<wNodes, wEdges>>

\* main, lines 269-277: open(PT_GRAPH_PATH) raises FileNotFoundError, main
\* logs it and returns
ReturnFileNotFound ==
    /\ UNCHANGED notWalk
    /\ wPc = "load"
    /\ ~wFile.exists
    /\ wPc' = "exit"
    /\ UNCHANGED <<wNodes, wEdges, wIds, wI, wCands, wStats, wPairs, wResult, wRun,
                   wPre, wCleared, wFirst, wFile>>

\* main, lines 287-289: the stats hold the error key, main returns
ReturnFailed ==
    /\ UNCHANGED notWalk
    /\ wPc = "done"
    /\ HasErrorKey(wResult)
    /\ wPc' = "exit"
    /\ UNCHANGED <<wNodes, wEdges, wIds, wI, wCands, wStats, wPairs, wResult, wRun,
                   wPre, wCleared, wFirst, wFile>>

\* main, lines 291-305: the graph is pickled to PT_GRAPH_PATH
SavePTGraph ==
    /\ UNCHANGED notWalk
    /\ wPc = "done"
    /\ ~HasErrorKey(wResult)
    /\ wFile' = GraphFile(wNodes, wEdges, wFile.writes + 1)
    /\ wPc' = "saved"
    /\ UNCHANGED <<wNodes, wEdges, wIds, wI, wCands, wStats, wPairs, wResult, wRun,
                   wPre, wCleared, wFirst>>

NextWalk ==
    \/ ReturnFileNotFound
    \/ ReturnFailed
    \/ SavePTGraph
    \/ ClearWalkingEdges
    \/ ReturnNoPtNodes
    \/ BuildIndex
    \/ VisitNode
    \/ SkipSelf
    \/ SkipTooFar
    \/ SkipExisting
    \/ AddPair
    \/ NextNode
    \/ ReturnStats
    \/ RunAgain

SpecWalk == InitWalk /\ [][NextWalk]_vars

-----------------------------------------------------------------------------
(* Car-to-PT connector: CarToPTConnector *)

\* Iteration order of G_car.nodes(); the car graph holds a prefix of it
RoadOrder == <<"road_1", "road_2", "road_3">>

\* ids of the station records, by position in the station list
StationIds == <<"pt_1", "pt_2", "pt_3", "pt_4">>

\* a road node whose data holds neither 'lat' nor 'lon'
NoRoadCoords == [name |-> "road"]

\* Road nodes on the equator and the prime meridian, near them, and around
\* latitude 38: 175 m east, 262 m east and 291 m north-east of (38, 0)
RoadPlaces == {Place(0, 0), Place(0, 100), Place(10, 10),
               Place(380000, 20), Place(380000, 30), Place(380025, 10)}

\* Stations: 55 m east of (0, 0), at (38, 0), and one far from every road node
StationPlaces == {Place(0, 5), Place(380000, 0), Place(390000, 0)}

CarGraphs == UNION {[{RoadOrder[k] : k \in 1..n} -> RoadPlaces \cup {NoRoadCoords}] :
                        n \in 0..Len(RoadOrder)}

StationLists ==
    UNION {{[k \in 1..n |-> [id |-> StationIds[k], name |-> StationIds[k],
                             lat |-> f[k].lat, lon |-> f[k].lon]] :
                f \in [1..n -> StationPlaces]} : n \in 0..MaxStations}

\* lat = node_data.get('lat'); lon = node_data.get('lon'); if lat and lon
LatAndLon(node_data) ==
    /\ "lat" \in DOMAIN node_data
    /\ "lon" \in DOMAIN node_data
    /\ node_data.lat # 0
    /\ node_data.lon # 0

RECURSIVE IndexedRoads(_, _)
\* self.road_nodes as build_spatial_index fills it, from position k of RoadOrder on
IndexedRoads(roads, k) ==
    IF k > Len(RoadOrder) THEN <<>>
    ELSE (IF RoadOrder[k] \in DOMAIN roads /\ LatAndLon(roads[RoadOrder[k]])
          THEN <<RoadOrder[k]>> ELSE <<>>) \o IndexedRoads(roads, k + 1)

\* search_radius_deg of find_connections, in hundredths of a coordinate unit
SearchRadiusCar(max_distance) == (max_distance * DegScale * 100) \div METERS_PER_DEGREE

\* self.road_tree.query_ball_point(station_coord, search_radius_deg)
RoadIndices(roads, road_nodes, station, max_distance) ==
    IndicesInBall(roads, road_nodes, station, SearchRadiusCar(max_distance), 1)

RECURSIVE ClosestRoad_LastWins(_, _, _, _, _, _)
\* mutant of ClosestRoad: a candidate at the same distance replaces the one held
ClosestRoad_LastWins(roads, road_nodes, station, indices, best, max_distance) ==
    IF indices = <<>> THEN best
    ELSE LET road_node_id == road_nodes[Head(indices)]
             distance == geodesic(station, roads[road_node_id])
             better == /\ (best.closest_road = None \/ distance <= best.min_distance)
                       /\ distance <= max_distance
         IN  ClosestRoad_LastWins(roads, road_nodes, station, Tail(indices),
                                  IF better THEN [closest_road |-> road_node_id,
                                                  min_distance |-> distance]
                                  ELSE best,
                                  max_distance)

RECURSIVE ClosestRoad(_, _, _, _, _, _)
\* the loop over indices: [closest_road, min_distance], closest_road None when
\* no candidate is within max_distance; min_distance starts at float('inf')
ClosestRoad(roads, road_nodes, station, indices, best, max_distance) ==
    IF indices = <<>> THEN best
    ELSE LET road_node_id == road_nodes[Head(indices)]
             distance == geodesic(station, roads[road_node_id])
             better == /\ (best.closest_road = None \/ distance < best.min_distance)
                       /\ distance <= max_distance
         IN  ClosestRoad(roads, road_nodes, station, Tail(indices),
                         IF better THEN [closest_road |-> road_node_id,
                                         min_distance |-> distance]
                         ELSE best,
                         max_distance)

NoClosest == [closest_road |-> None, min_distance |-> 0]

\* the connection dictionary find_connections appends
Connection(station, closest_road, roads, min_distance) ==
    [station_id |-> station.id, station_name |-> station.name,
     station_lat |-> station.lat, station_lon |-> station.lon,
     road_node |-> closest_road,
     road_lat |-> roads[closest_road].lat, road_lon |-> roads[closest_road].lon,
     distance |-> min_distance, walk_time |-> WalkTime(min_distance)]

InitCar ==
    /\ WalkIdle
    /\ MergeIdle
    /\ cRoads \in CarGraphs
    /\ cStations \in StationLists
    /\ cPc = "build"
    /\ cRoadNodes = <<>>
    /\ cK = 0
    /\ cConns = <<>>
    /\ cCount = [stations_connected |-> 0, stations_too_far |-> 0]
    /\ cTooFar = {}
    /\ cError = None
    /\ cFiles = NoFiles

\* build_spatial_index, lines 55-74, with at least one road node indexed
BuildSpatialIndex ==
    /\ UNCHANGED notCar
    /\ cPc = "build"
    /\ IndexedRoads(cRoads, 1) # <<>>
    /\ cRoadNodes' = IndexedRoads(cRoads, 1)
    /\ cPc' = "stations"
    /\ cK' = 1
    /\ UNCHANGED cFiles
    /\ UNCHANGED <<cRoads, cStations, cConns, cCount, cTooFar, cError>>

\* build_spatial_index, lines 71-72: no road node was indexed, road_coords is
\* an empty one-dimensional array and KDTree(road_coords) raises ValueError
BuildSpatialIndexRaises ==
    /\ UNCHANGED notCar
    /\ cPc = "build"
    /\ IndexedRoads(cRoads, 1) = <<>>
    /\ cPc' = "raised"
    /\ cError' = "ValueError: KDTree data"
    /\ UNCHANGED cFiles
    /\ UNCHANGED <<cRoads, cStations, cRoadNodes, cK, cConns, cCount, cTooFar>>

\* mutant of StationWithoutCandidates: the station is skipped without being counted
StationWithoutCandidates_NotCounted ==
    /\ UNCHANGED notCar
    /\ cPc = "stations"
    /\ cK <= Len(cStations)
    /\ RoadIndices(cRoads, cRoadNodes, cStations[cK], MAX_WALKING_DISTANCE_M) = <<>>
    /\ cTooFar' = cTooFar \cup {cStations[cK].id}
    /\ cK' = cK + 1
    /\ UNCHANGED cFiles
    /\ UNCHANGED <<cRoads, cStations, cPc, cRoadNodes, cConns, cCount, cError>>

\* find_connections, lines 87-99: the radius query returns no index
StationWithoutCandidates ==
    /\ UNCHANGED notCar
    /\ cPc = "stations"
    /\ cK <= Len(cStations)
    /\ RoadIndices(cRoads, cRoadNodes, cStations[cK], MAX_WALKING_DISTANCE_M) = <<>>
    /\ cCount' = [cCount EXCEPT !.stations_too_far = @ + 1]
    /\ cTooFar' = cTooFar \cup {cStations[cK].id}
    /\ cK' = cK + 1
    /\ UNCHANGED cFiles
    /\ UNCHANGED <<cRoads, cStations, cPc, cRoadNodes, cConns, cError>>

\* find_connections, lines 87-138: the radius query returns candidates
StationWithCandidates ==
    /\ UNCHANGED notCar
    /\ cPc = "stations"
    /\ cK <= Len(cStations)
    /\ LET station == cStations[cK]
           indices == RoadIndices(cRoads, cRoadNodes, station, MAX_WALKING_DISTANCE_M)
           found == ClosestRoad(cRoads, cRoadNodes, station, indices, NoClosest,
                                MAX_WALKING_DISTANCE_M)
       IN  /\ indices # <<>>
           /\ IF found.closest_road # None
              THEN /\ cConns' = Append(cConns, Connection(station, found.closest_road,
                                                          cRoads, found.min_distance))
                   /\ cCount' = [cCount EXCEPT !.stations_connected = @ + 1]
                   /\ cTooFar' = cTooFar
              ELSE /\ cCount' = [cCount EXCEPT !.stations_too_far = @ + 1]
                   /\ cTooFar' = cTooFar \cup {station.id}
                   /\ cConns' = cConns
    /\ cK' = cK + 1
    /\ UNCHANGED cFiles
    /\ UNCHANGED <<cRoads, cStations, cPc, cRoadNodes, cError>>

\* mutant of RaiseNoConnections: the empty list is returned
RaiseNoConnections_Returns ==
    /\ UNCHANGED notCar
    /\ cPc = "stations"
    /\ cK > Len(cStations)
    /\ cCount.stations_connected = 0
    /\ cPc' = "returned"
    /\ UNCHANGED cFiles
    /\ UNCHANGED <<cRoads, cStations, cRoadNodes, cK, cConns, cCount, cTooFar, cError>>

\* find_connections, lines 144-146
RaiseNoConnections ==
    /\ UNCHANGED notCar
    /\ cPc = "stations"
    /\ cK > Len(cStations)
    /\ cCount.stations_connected = 0
    /\ cPc' = "raised"
    /\ cError' = "ValueError: No connections found"
    /\ UNCHANGED cFiles
    /\ UNCHANGED <<cRoads, cStations, cRoadNodes, cK, cConns, cCount, cTooFar>>

\* find_connections, line 148
ReturnConnections ==
    /\ UNCHANGED notCar
    /\ cPc = "stations"
    /\ cK > Len(cStations)
    /\ cCount.stations_connected # 0
    /\ cPc' = "returned"
    /\ UNCHANGED cFiles
    /\ UNCHANGED <<cRoads, cStations, cRoadNodes, cK, cConns, cCount, cTooFar, cError>>

\* main, lines 211-212: connector.generate_report()
GenerateReport ==
    /\ UNCHANGED notCar
    /\ cPc = "returned"
    /\ cFiles' = [cFiles EXCEPT !.report = TRUE]
    /\ cPc' = "reported"
    /\ UNCHANGED <<cRoads, cStations, cRoadNodes, cK, cConns, cCount, cTooFar, cError>>

\* main, lines 214-218: json.dump(connections, f)
SaveConnections ==
    /\ UNCHANGED notCar
    /\ cPc = "reported"
    /\ cFiles' = [cFiles EXCEPT !.connections_json = TRUE, !.connections = cConns]
    /\ cPc' = "saved"
    /\ UNCHANGED <<cRoads, cStations, cRoadNodes, cK, cConns, cCount, cTooFar, cError>>

NextCar ==
    \/ BuildSpatialIndex
    \/ BuildSpatialIndexRaises
    \/ StationWithoutCandidates
    \/ StationWithCandidates
    \/ RaiseNoConnections
    \/ ReturnConnections
    \/ GenerateReport
    \/ SaveConnections

SpecCar == InitCar /\ [][NextCar]_vars

\* Either connector, run on its own inputs
InitConnectors == InitWalk \/ InitCar

NextConnectors == NextWalk \/ NextCar

SpecConnectors == InitConnectors /\ [][NextConnectors]_vars

-----------------------------------------------------------------------------
(* merge_graphs.py: create_combined_graph *)

\* Node identifiers in the order in which G_combined receives them: the PT
\* graph's nodes, then the car graph's, then the ones add_edge creates.
MergeNodeOrder == <<"pt_1", "pt_2", "pt_3", "road_1", "road_2", "road_9">>

\* The PT graph holds three nodes: three stops, two stops and a node whose
\* identifier also occurs in the car graph, or one stop and two such nodes.
PtNodeSets == {{"pt_1", "pt_2", "pt_3"}, {"pt_1", "pt_2", "road_1"},
               {"pt_1", "road_1", "road_2"}}

CarNodeSet == {"road_1", "road_2"}

PtNodeData(n) == [lat |-> 380000, lon |-> 0, name |-> n]

CarNodeData(n) == [lat |-> 380010, lon |-> 10]

CarEdge == [mode |-> "car", distance |-> 500, time |-> 40, emissions |-> 90]

\* the edges a PT graph may hold: scheduled service, a walking transfer as the
\* walking connector writes it, a walking transfer of an older run
PtEdgeKinds == {BusEdge, TrainEdge, WalkingAttrs(250), OldWalkEdge}

\* the nodes of set S in the order of MergeNodeOrder
NodeSeq(S) == SelectSeq2(MergeNodeOrder, S)

\* ordered pairs of neighbours in the node order of S
ChainPairs(S) ==
    UNION {{<<NodeSeq(S)[i], NodeSeq(S)[i + 1]>>, <<NodeSeq(S)[i + 1], NodeSeq(S)[i]>>}
           : i \in 1..(Cardinality(S) - 1)}

PtGraphs ==
    UNION {UNION {{[nodes |-> [n \in S |-> PtNodeData(n)], edges |-> E]
                   : E \in [P -> PtEdgeKinds]}
                  : P \in {Q \in SUBSET ChainPairs(S) : Cardinality(Q) <= MaxPtEdges}}
           : S \in PtNodeSets}

CarGraphsToMerge ==
    {[nodes |-> [n \in CarNodeSet |-> CarNodeData(n)], edges |-> E]
     : E \in {NoEdges, [e \in {<<"road_1", "road_2">>} |-> CarEdge]}}

\* records of connections.json; road_9 is a road node that is in no graph
ConnectionRecords ==
    {Connection([id |-> s, name |-> "Station", lat |-> 380000, lon |-> 0], r,
                [x \in {r} |-> Place(380010, 10)], 120)
     : r \in {"road_1", "road_9"}, s \in {"pt_1", "pt_2"}}

\* find_connections writes at most one record per station
ConnectionLists ==
    {c \in UNION {[1..n -> ConnectionRecords] : n \in 0..MaxConns}
     : \A i, j \in 1..Len(c) : c[i].station_id = c[j].station_id => i = j}

\* G.edges(): the edges of E by source node, then by target node
EdgeOrder(E) ==
    LET n == Len(MergeNodeOrder)
        all == [t \in 1..(n * n) |->
                   <<MergeNodeOrder[((t - 1) \div n) + 1], MergeNodeOrder[((t - 1) % n) + 1]>>]
    IN SelectSeq2(all, DOMAIN E)

\* the out-edges of node in the order of insertion
OutEdges(seq, node) == SelectSeq2(seq, {seq[k] : k \in {i \in 1..Len(seq) : seq[i][1] = node}})

\* nx.DiGraph.add_nodes_from: a node that exists has its attributes updated
add_nodes_from(N, new) ==
    [n \in DOMAIN N \cup DOMAIN new |->
        IF n \notin DOMAIN new THEN N[n]
        ELSE IF n \notin DOMAIN N THEN new[n]
        ELSE [k \in DOMAIN N[n] \cup DOMAIN new[n] |->
                 IF k \in DOMAIN new[n] THEN new[n][k] ELSE N[n][k]]]

RECURSIVE add_edges_from(_, _, _)
\* nx.DiGraph.add_edges_from: add_edge for each edge of new, in the order seq
add_edges_from(E, new, seq) ==
    IF seq = <<>> THEN E
    ELSE add_edges_from(add_edge(E, Head(seq)[1], Head(seq)[2], new[Head(seq)]),
                        new, Tail(seq))

\* the insertion order after add_edge(u, v): a new pair goes last
InsertionOrder(seq, E, u, v) == IF has_edge(E, u, v) THEN seq ELSE Append(seq, <<u, v>>)

\* add_edge creates the end nodes it does not find
WithEndNodes(N, u, v) ==
    [n \in DOMAIN N \cup {u, v} |-> IF n \in DOMAIN N THEN N[n] ELSE NoAttributes]

IsTransport(data) == Get(data, "mode") \in {"tram", "bus", "train"}

\* mutant of ConnectionAttrs: the edge is tagged as a PT transfer
ConnectionAttrs_PtTransfer(conn) ==
    [mode |-> "walk", distance |-> conn.distance, time |-> conn.walk_time,
     emissions |-> 0, edge_type |-> "pt_transfer",
     station_name |-> conn.station_name]

\* the attributes of a connection edge
ConnectionAttrs(conn) ==
    [mode |-> "walk", distance |-> conn.distance, time |-> conn.walk_time,
     emissions |-> 0, edge_type |-> "car_to_pt_transfer",
     station_name |-> conn.station_name]
\* mutant of SharedAttributeDicts: G_combined stores the source graph's own
\* attribute dictionaries
SharedAttributeDicts_All(E) == DOMAIN E

\* add_nodes_from / add_edges_from / add_edge(v, u, **data) update a dictionary
\* that G_combined owns (datadict.update(dd)): the edges of a source graph
\* whose dictionary object is also an edge dictionary of G_combined
SharedAttributeDicts(E) == {}

\* a source graph as a caller reads it while G_combined holds the edges E
SourceAsSeen(G, E) ==
    [G EXCEPT !.edges = [e \in DOMAIN G.edges |->
        IF e \in SharedAttributeDicts(G.edges) /\ e \in DOMAIN E
        THEN E[e] ELSE G.edges[e]]]


InitMerge ==
    /\ WalkIdle
    /\ CarIdle
    /\ mPt \in PtGraphs
    /\ mCar \in CarGraphsToMerge
    /\ mConns \in ConnectionLists
    /\ mNodes = NoNodes
    /\ mEdges = NoEdges
    /\ mSeq = <<>>
    /\ mPc = "start"
    /\ mCur = [p |-> 1, q |-> 0]
    /\ mCount = ZeroCount
    /\ mSynth = {}

\* lines 58-66: G_combined receives the PT graph's nodes and edges
AddPTNetwork ==
    /\ mPc = "start"
    /\ mNodes' = add_nodes_from(NoNodes, mPt.nodes)
    /\ mEdges' = add_edges_from(NoEdges, mPt.edges, EdgeOrder(mPt.edges))
    /\ mSeq' = EdgeOrder(mPt.edges)
    /\ mPc' = "walking"
    /\ mCur' = [p |-> 1, q |-> 0]
    /\ mPt' = SourceAsSeen(mPt, mEdges')
    /\ mCar' = SourceAsSeen(mCar, mEdges')
    /\ UNCHANGED <<mConns, mCount, mSynth>>
    /\ UNCHANGED notMerge

\* lines 71-77, pass 1: a walk/pt_transfer edge of G_pt whose reverse pair has
\* no edge in G_combined gets a reverse with the same attributes
ReverseWalkingEdge ==
    /\ mPc = "walking"
    /\ mCur.p <= Len(EdgeOrder(mPt.edges))
    /\ LET u == EdgeOrder(mPt.edges)[mCur.p][1]
           v == EdgeOrder(mPt.edges)[mCur.p][2]
           data == mPt.edges[<<u, v>>]
       IN /\ IsWalkTransfer(data)
          /\ ~has_edge(mEdges, v, u)
          /\ mEdges' = add_edge(mEdges, v, u, data)
          /\ mSeq' = InsertionOrder(mSeq, mEdges, v, u)
          /\ mSynth' = mSynth \cup {[edge |-> <<v, u>>, pass |-> 1,
                                     reverses |-> Get(data, "edge_type")]}
    /\ mCount' = [mCount EXCEPT !.walking_edges_added = @ + 1]
    /\ mCur' = [mCur EXCEPT !.p = @ + 1]
    /\ mPt' = SourceAsSeen(mPt, mEdges')
    /\ mCar' = SourceAsSeen(mCar, mEdges')
    /\ UNCHANGED <<mConns, mNodes, mPc>>
    /\ UNCHANGED notMerge

\* lines 71-74, pass 1: any other edge of G_pt is passed over
KeepWalkingEdge ==
    /\ mPc = "walking"
    /\ mCur.p <= Len(EdgeOrder(mPt.edges))
    /\ LET u == EdgeOrder(mPt.edges)[mCur.p][1]
           v == EdgeOrder(mPt.edges)[mCur.p][2]
           data == mPt.edges[<<u, v>>]
       IN ~(IsWalkTransfer(data) /\ ~has_edge(mEdges, v, u))
    /\ mCur' = [mCur EXCEPT !.p = @ + 1]
    /\ UNCHANGED <<mPt, mCar, mConns, mNodes, mEdges, mSeq, mPc, mCount, mSynth>>
    /\ UNCHANGED notMerge

\* lines 79-82: pass 1 is over, pass 2 starts at the first node of G_combined
WalkingPassDone ==
    /\ mPc = "walking"
    /\ mCur.p > Len(EdgeOrder(mPt.edges))
    /\ mPc' = "transport"
    /\ mCur' = [p |-> 1, q |-> 0]
    /\ UNCHANGED <<mPt, mCar, mConns, mNodes, mEdges, mSeq, mCount, mSynth>>
    /\ UNCHANGED notMerge

\* mutant of ReverseTransportEdge: the reverse is written whether or not the
\* reverse pair has an edge
ReverseTransportEdge_Always ==
    /\ mPc = "transport"
    /\ mCur.p <= Len(NodeSeq(DOMAIN mNodes))
    /\ mCur.q < Len(OutEdges(mSeq, NodeSeq(DOMAIN mNodes)[mCur.p]))
    /\ LET e == OutEdges(mSeq, NodeSeq(DOMAIN mNodes)[mCur.p])[mCur.q + 1]
           u == e[1]
           v == e[2]
           data == mEdges[e]
       IN /\ IsTransport(data)
          /\ mEdges' = add_edge(mEdges, v, u, data)
          /\ mSeq' = InsertionOrder(mSeq, mEdges, v, u)
          /\ mSynth' = mSynth \cup {[edge |-> <<v, u>>, pass |-> 2,
                                     reverses |-> Get(data, "edge_type")]}
    /\ mCount' = [mCount EXCEPT !.reverse_edges_added = @ + 1]
    /\ mCur' = [mCur EXCEPT !.q = @ + 1]
    /\ mPt' = SourceAsSeen(mPt, mEdges')
    /\ mCar' = SourceAsSeen(mCar, mEdges')
    /\ UNCHANGED <<mConns, mNodes, mPc>>
    /\ UNCHANGED notMerge

\* lines 82-88, pass 2: the iteration over G_combined.edges reads the graph as it
\* is when each edge is reached; a tram, bus or train edge whose reverse pair
\* has no edge gets a reverse with the same attributes
ReverseTransportEdge ==
    /\ mPc = "transport"
    /\ mCur.p <= Len(NodeSeq(DOMAIN mNodes))
    /\ mCur.q < Len(OutEdges(mSeq, NodeSeq(DOMAIN mNodes)[mCur.p]))
    /\ LET e == OutEdges(mSeq, NodeSeq(DOMAIN mNodes)[mCur.p])[mCur.q + 1]
           u == e[1]
           v == e[2]
           data == mEdges[e]
       IN /\ IsTransport(data)
          /\ ~has_edge(mEdges, v, u)
          /\ mEdges' = add_edge(mEdges, v, u, data)
          /\ mSeq' = InsertionOrder(mSeq, mEdges, v, u)
          /\ mSynth' = mSynth \cup {[edge |-> <<v, u>>, pass |-> 2,
                                     reverses |-> Get(data, "edge_type")]}
    /\ mCount' = [mCount EXCEPT !.reverse_edges_added = @ + 1]
    /\ mCur' = [mCur EXCEPT !.q = @ + 1]
    /\ mPt' = SourceAsSeen(mPt, mEdges')
    /\ mCar' = SourceAsSeen(mCar, mEdges')
    /\ UNCHANGED <<mConns, mNodes, mPc>>
    /\ UNCHANGED notMerge

\* lines 82-85, pass 2: any other edge of G_combined is passed over
KeepTransportEdge ==
    /\ mPc = "transport"
    /\ mCur.p <= Len(NodeSeq(DOMAIN mNodes))
    /\ mCur.q < Len(OutEdges(mSeq, NodeSeq(DOMAIN mNodes)[mCur.p]))
    /\ LET e == OutEdges(mSeq, NodeSeq(DOMAIN mNodes)[mCur.p])[mCur.q + 1]
           data == mEdges[e]
       IN ~(IsTransport(data) /\ ~has_edge(mEdges, e[2], e[1]))
    /\ mCur' = [mCur EXCEPT !.q = @ + 1]
    /\ UNCHANGED <<mPt, mCar, mConns, mNodes, mEdges, mSeq, mPc, mCount, mSynth>>
    /\ UNCHANGED notMerge

\* line 82: the out-edges of one node are exhausted, the iteration moves on
NextSourceNode ==
    /\ mPc = "transport"
    /\ mCur.p <= Len(NodeSeq(DOMAIN mNodes))
    /\ mCur.q >= Len(OutEdges(mSeq, NodeSeq(DOMAIN mNodes)[mCur.p]))
    /\ mCur' = [p |-> mCur.p + 1, q |-> 0]
    /\ UNCHANGED <<mPt, mCar, mConns, mNodes, mEdges, mSeq, mPc, mCount, mSynth>>
    /\ UNCHANGED notMerge

\* lines 90-110: pass 2 is over; the debug count that follows changes nothing
TransportPassDone ==
    /\ mPc = "transport"
    /\ mCur.p > Len(NodeSeq(DOMAIN mNodes))
    /\ mPc' = "car"
    /\ mCur' = [p |-> 1, q |-> 0]
    /\ UNCHANGED <<mPt, mCar, mConns, mNodes, mEdges, mSeq, mCount, mSynth>>
    /\ UNCHANGED notMerge

\* lines 112-117: G_combined receives the car graph's nodes and edges
AddCarNetwork ==
    /\ mPc = "car"
    /\ mNodes' = add_nodes_from(mNodes, mCar.nodes)
    /\ mEdges' = add_edges_from(mEdges, mCar.edges, EdgeOrder(mCar.edges))
    /\ mSeq' = mSeq \o SelectSeq2(EdgeOrder(mCar.edges), DOMAIN mCar.edges \ DOMAIN mEdges)
    /\ mPc' = "connections"
    /\ mCur' = [p |-> 1, q |-> 0]
    /\ mPt' = SourceAsSeen(mPt, mEdges')
    /\ mCar' = SourceAsSeen(mCar, mEdges')
    /\ UNCHANGED <<mConns, mCount, mSynth>>
    /\ UNCHANGED notMerge

\* lines 123-141: one record of the connection list becomes the edge
\* road_node -> station_id
AddConnection ==
    /\ mPc = "connections"
    /\ mCur.p <= Len(mConns)
    /\ LET conn == mConns[mCur.p]
           road_node == conn.road_node
           station_id == conn.station_id
       IN /\ mNodes' = WithEndNodes(mNodes, road_node, station_id)
          /\ mEdges' = add_edge(mEdges, road_node, station_id, ConnectionAttrs(conn))
          /\ mSeq' = InsertionOrder(mSeq, mEdges, road_node, station_id)
    /\ mCount' = [mCount EXCEPT !.connections_added = @ + 1]
    /\ mCur' = [mCur EXCEPT !.p = @ + 1]
    /\ mPt' = SourceAsSeen(mPt, mEdges')
    /\ mCar' = SourceAsSeen(mCar, mEdges')
    /\ UNCHANGED <<mConns, mPc, mSynth>>
    /\ UNCHANGED notMerge

\* line 145: return G_combined
ReturnCombined ==
    /\ mPc = "connections"
    /\ mCur.p > Len(mConns)
    /\ mPc' = "done"
    /\ UNCHANGED <<mPt, mCar, mConns, mNodes, mEdges, mSeq, mCur, mCount, mSynth>>
    /\ UNCHANGED notMerge

NextMerge ==
    \/ AddPTNetwork
    \/ ReverseWalkingEdge
    \/ KeepWalkingEdge
    \/ WalkingPassDone
    \/ ReverseTransportEdge
    \/ KeepTransportEdge
    \/ NextSourceNode
    \/ TransportPassDone
    \/ AddCarNetwork
    \/ AddConnection
    \/ ReturnCombined

SpecMerge == InitMerge /\ [][NextMerge]_vars

\* The walking connector on a PT graph, or the merge of a PT graph that holds
\* the walking edges of the connector
InitWalkThenMerge == InitWalk \/ InitMerge

NextWalkThenMerge == NextWalk \/ NextMerge

SpecWalkThenMerge == InitWalkThenMerge /\ [][NextWalkThenMerge]_vars

\* find_connections on a car graph and a station list, or create_combined_graph
\* on two graphs and a connection list
InitCarThenMerge == InitCar \/ InitMerge

NextCarThenMerge == NextCar \/ NextMerge

SpecCarThenMerge == InitCarThenMerge /\ [][NextCarThenMerge]_vars

-----------------------------------------------------------------------------
(* Properties of create_combined_graph *)

\* the PT graph and the car graph share no node identifier
DisjointIds == DOMAIN mPt.nodes \cap DOMAIN mCar.nodes = {}

\* C2: after create_combined_graph returns, every edge (u,v) of the combined
\* graph with edge_type pt_transfer has a reverse edge (v,u) with the same
\* mode, edge_type, distance, time and emissions, whatever the PT graph was.
\* Stated here for the graphs that share no node identifier, which is enough
\* to refute it.
C2_TransferEdgesHaveMatchingReverse ==
    mPc = "done" /\ DisjointIds =>
        \A e \in DOMAIN mEdges :
            Get(mEdges[e], "edge_type") = "pt_transfer" =>
                /\ has_edge(mEdges, e[2], e[1])
                /\ \A k \in {"mode", "edge_type", "distance", "time", "emissions"} :
                       k \in DOMAIN mEdges[e] =>
                           /\ k \in DOMAIN mEdges[<<e[2], e[1]>>]
                           /\ mEdges[<<e[2], e[1]>>][k] = mEdges[e][k]

\* C6: after create_combined_graph returns, every connection record has its
\* edge road_node -> station_id with edge_type car_to_pt_transfer; the reverse
\* edge station_id -> road_node is there only if the PT graph or the car graph
\* held it; no backfill pass synthesizes the reverse of a car_to_pt_transfer
\* edge.
C6_ConnectionEdgesAreOneWay ==
    /\ \A x \in mSynth : x.reverses # "car_to_pt_transfer"
    /\ mPc = "done" =>
          \A k \in 1..Len(mConns) :
              LET r == mConns[k].road_node
                  s == mConns[k].station_id
              IN /\ has_edge(mEdges, r, s)
                 /\ Get(mEdges[<<r, s>>], "edge_type") = "car_to_pt_transfer"
                 /\ has_edge(mEdges, s, r) =>
                        <<s, r>> \in DOMAIN mPt.edges \cup DOMAIN mCar.edges

-----------------------------------------------------------------------------
(* Properties of the PT-to-PT walking connector *)

\* add_walking_edges has returned its stats (not the no_pt_nodes dictionary)
WalkSucceeded == wPc = "done" /\ "error" \notin DOMAIN wResult

IsWalkAt(E, u, v) == has_edge(E, u, v) /\ IsWalkTransfer(E[<<u, v>>])

HasCoords(n) == "lat" \in DOMAIN wNodes[n] /\ "lon" \in DOMAIN wNodes[n]

\* the candidate pairs within the walking budget
WithinBudget(u, v) ==
    /\ u # v
    /\ HasCoords(u)
    /\ HasCoords(v)
    /\ geodesic(wNodes[u], wNodes[v]) <= MAX_WALKING_DISTANCE_M

\* C1: a candidate pair within the walking budget that already has an edge in
\* either direction after the clearing step gets no walking edge in either
\* direction (the pair is skipped entirely).
C1_SkipsPairWithEdgeInEitherDirection ==
    WalkSucceeded =>
        \A u \in Stops, v \in Stops :
            (WithinBudget(u, v) /\ (has_edge(wCleared, u, v) \/ has_edge(wCleared, v, u)))
                => (~IsWalkAt(wEdges, u, v) /\ ~IsWalkAt(wEdges, v, u))

\* C3 (P2): after a successful run every walk/pt_transfer edge (u,v) has a
\* reverse edge (v,u) that is walk/pt_transfer too and carries the same
\* distance, time and emissions.
C3_WalkingEdgesSymmetric ==
    WalkSucceeded =>
        \A e \in DOMAIN wEdges :
            IsWalkTransfer(wEdges[e]) =>
                /\ IsWalkAt(wEdges, e[2], e[1])
                /\ wEdges[<<e[2], e[1]>>].distance = wEdges[e].distance
                /\ wEdges[<<e[2], e[1]>>].time = wEdges[e].time
                /\ wEdges[<<e[2], e[1]>>].emissions = wEdges[e].emissions

\* C3 witness: a successful run that cleared an old walking edge and put a
\* walking edge on a pair whose reverse direction held a scheduled edge
C3_Witness ==
    /\ WalkSucceeded
    /\ wCleared # wPre
    /\ \E e \in DOMAIN wEdges :
          /\ IsWalkTransfer(wEdges[e])
          /\ ~has_edge(wCleared, e[1], e[2])
          /\ has_edge(wCleared, e[2], e[1])

\* C4 (P4): a second run in succession leaves the same edges with the same
\* attributes and returns the same stats as the first run.
C4_SecondRunSameAsFirst ==
    (wPc = "done" /\ wRun >= 2) =>
        (wEdges = wFirst.edges /\ wResult = wFirst.result)

\* C5: when no node carries coordinates the call returns no_pt_nodes and the
\* graph's edges are exactly those it held before the call.
C5_NoPtNodesLeavesGraphUntouched ==
    (wPc = "done" /\ wResult = NoPtNodes) => wEdges = wPre

\* C8: with the radius max_walk_distance / min(111320, 111320*cos(mean
\* latitude)), every pair of candidate stops whose exact distance is within the
\* walking budget is returned by the radius query.
C8_WalkRadiusNeverUnderSelects ==
    (wPc \in {"node", "pair", "done"} /\ wIds # <<>>) =>
        \A i \in 1..Len(wIds), j \in 1..Len(wIds) :
            geodesic(wNodes[wIds[i]], wNodes[wIds[j]]) <= MAX_WALKING_DISTANCE_M
                => InBall(wNodes[wIds[i]], wNodes[wIds[j]],
                          SearchRadiusPT(wNodes, wIds, MAX_WALKING_DISTANCE_M))

-----------------------------------------------------------------------------
(* Properties of the car-to-PT connector *)

Range(seq) == {seq[k] : k \in 1..Len(seq)}

\* the station loop of find_connections has run to its end
StationLoopDone ==
    \/ cPc = "stations" /\ cK > Len(cStations)
    \/ cPc \in {"returned", "reported", "saved"}
    \/ cPc = "raised" /\ cError = "ValueError: No connections found"

\* C7: every indexed road node whose exact distance to a station is within
\* max_distance is in the candidate set of that station's radius query, so no
\* station is marked too far while a road node lies within the budget.
C7_CarRadiusHasNoFalseNegatives ==
    /\ \A k \in 1..Len(cStations), i \in 1..Len(cRoadNodes) :
          geodesic(cStations[k], cRoads[cRoadNodes[i]]) <= MAX_WALKING_DISTANCE_M
              => i \in Range(RoadIndices(cRoads, cRoadNodes, cStations[k],
                                         MAX_WALKING_DISTANCE_M))
    /\ \A k \in 1..Len(cStations) :
          cStations[k].id \in cTooFar =>
              \A r \in Range(cRoadNodes) :
                  geodesic(cStations[k], cRoads[r]) > MAX_WALKING_DISTANCE_M

\* the scenario of the specification: road nodes R1 at (0, 0) and R2 at
\* (0, 0.01), station S1 at (0, 0.0005)
ScenarioR1R2S1 ==
    /\ DOMAIN cRoads = {"road_1", "road_2"}
    /\ cRoads["road_1"] = Place(0, 0)
    /\ cRoads["road_2"] = Place(0, 100)
    /\ Len(cStations) = 1
    /\ cStations[1].lat = 0
    /\ cStations[1].lon = 5

\* C9: every road node that carries lat and lon, a value of 0 included, is
\* indexed; in the scenario find_connections produces exactly one
\* ConnectionRecord, whose road_node is R1.
C9_ZeroCoordinatesAreIndexed ==
    /\ cPc \in {"stations", "returned", "raised"} =>
          \A r \in DOMAIN cRoads :
              ("lat" \in DOMAIN cRoads[r] /\ "lon" \in DOMAIN cRoads[r])
                  => r \in Range(cRoadNodes)
    /\ (ScenarioR1R2S1 /\ cPc \in {"returned", "raised"}) =>
          /\ cPc = "returned"
          /\ Len(cConns) = 1
          /\ cConns[1].road_node = "road_1"

\* C10 (P6): when the station loop is complete, stations_connected +
\* stations_too_far is the number of stations, len(connections) is
\* stations_connected, and every station was either connected or marked too
\* far, never both.
C10_EveryStationHasOneOutcome ==
    StationLoopDone =>
        /\ cCount.stations_connected + cCount.stations_too_far = Len(cStations)
        /\ Len(cConns) = cCount.stations_connected
        /\ \A k \in 1..Len(cStations) :
              /\ Cardinality({n \in 1..Len(cConns) :
                                cConns[n].station_id = cStations[k].id}) <= 1
              /\ (cStations[k].id \in cTooFar)
                    # (\E n \in 1..Len(cConns) : cConns[n].station_id = cStations[k].id)

\* C10 witness: the call returned with one station connected and another one
\* marked too far
C10_Witness ==
    /\ cPc = "returned"
    /\ cCount.stations_connected > 0
    /\ cCount.stations_too_far > 0

-----------------------------------------------------------------------------
(* Properties of the two connectors together *)

\* C11 (P3): every ConnectionRecord of find_connections has distance <=
\* max_distance, and once add_walking_edges has returned, every edge tagged
\* walk/pt_transfer has distance <= max_walk_distance, the edges of an earlier
\* run with a larger budget being gone.
C11_DistancesWithinBudget ==
    /\ \A k \in 1..Len(cConns) : cConns[k].distance <= MAX_WALKING_DISTANCE_M
    /\ wPc = "done" =>
           \A e \in DOMAIN wEdges :
               IsWalkTransfer(wEdges[e]) => wEdges[e].distance <= MAX_WALKING_DISTANCE_M

\* C11 witness: add_walking_edges returned its stats on a graph that held a
\* walking edge longer than the budget, skipped a pair as too far, and left a
\* walking edge of positive length
C11_Witness ==
    /\ WalkSucceeded
    /\ wStats.skipped_too_far > 0
    /\ \E e \in DOMAIN wPre :
           IsWalkTransfer(wPre[e]) /\ wPre[e].distance > MAX_WALKING_DISTANCE_M
    /\ \E e \in DOMAIN wEdges : IsWalkTransfer(wEdges[e]) /\ wEdges[e].distance > 0

-----------------------------------------------------------------------------
(* Further properties of the car-to-PT connector *)

\* the station record a connection record was made for
StationOf(conn) == CHOOSE st \in Range(cStations) : st.id = conn.station_id

\* the candidate ordering the index returns for a station
CandidatesOf(station) ==
    RoadIndices(cRoads, cRoadNodes, station, MAX_WALKING_DISTANCE_M)

\* exact distance from a station to the candidate at position k of the ordering
CandidateDistance(station, k) ==
    geodesic(station, cRoads[cRoadNodes[CandidatesOf(station)[k]]])

\* positions of the candidates within max_distance
WithinMaxDistance(station) ==
    {k \in 1..Len(CandidatesOf(station)) :
        CandidateDistance(station, k) <= MAX_WALKING_DISTANCE_M}

\* C12: the road_node of every ConnectionRecord is a candidate of minimal exact
\* distance among the candidates within max_distance, and among candidates at
\* that minimal distance it is the first of the candidate ordering.
C12_RecordsClosestFirstCandidate ==
    \A n \in 1..Len(cConns) :
        LET station == StationOf(cConns[n])
        IN  \E k \in WithinMaxDistance(station) :
               /\ cConns[n].road_node = cRoadNodes[CandidatesOf(station)[k]]
               /\ cConns[n].distance = CandidateDistance(station, k)
               /\ \A m \in WithinMaxDistance(station) :
                      /\ CandidateDistance(station, m) >= CandidateDistance(station, k)
                      /\ CandidateDistance(station, m) = CandidateDistance(station, k)
                             => m >= k

\* C12 witness: a record was made for a station with three candidates within
\* max_distance, the first one farther away than the other two, which tie
C12_Witness ==
    /\ cPc = "returned"
    /\ \E n \in 1..Len(cConns) :
           LET station == StationOf(cConns[n])
           IN  /\ WithinMaxDistance(station) = {1, 2, 3}
               /\ CandidateDistance(station, 1) > CandidateDistance(station, 2)
               /\ CandidateDistance(station, 2) = CandidateDistance(station, 3)
               /\ cRoadNodes[CandidatesOf(station)[2]] # cRoadNodes[CandidatesOf(station)[3]]
               /\ cConns[n].road_node = cRoadNodes[CandidatesOf(station)[2]]

\* C13: when no station is connected, the station list being empty included,
\* find_connections raises and main writes neither the report nor
\* connections.json, so this run never leaves an empty connection list behind.
C13_NoConnectionsIsFatal ==
    /\ (cPc \in {"returned", "reported", "saved"}) =>
           cCount.stations_connected > 0 /\ Len(cConns) > 0
    /\ (StationLoopDone /\ cCount.stations_connected = 0 /\ cPc # "stations") =>
           cPc = "raised" /\ cError = "ValueError: No connections found"
    /\ cPc = "raised" => cFiles = NoFiles
    /\ cFiles.report => Len(cConns) > 0
    /\ cFiles.connections_json => Len(cFiles.connections) > 0

\* C13 witness: find_connections raised on an empty station list, after the
\* index was built, and nothing was written
C13_Witness ==
    /\ cPc = "raised"
    /\ cError = "ValueError: No connections found"
    /\ cStations = <<>>
    /\ cRoadNodes # <<>>
    /\ cFiles = NoFiles

\* every node of the car graph lacks 'lat' or 'lon', and there is such a node
AllRoadsLackCoordinates ==
    /\ DOMAIN cRoads # {}
    /\ \A r \in DOMAIN cRoads :
           "lat" \notin DOMAIN cRoads[r] \/ "lon" \notin DOMAIN cRoads[r]

\* C14: building the spatial index does not raise because of nodes without
\* coordinates: such nodes are left out of the index and the build succeeds,
\* also when every node of the graph is left out.
C14_IndexBuildNeverRaises ==
    /\ \A k \in 1..Len(cRoadNodes) :
           "lat" \in DOMAIN cRoads[cRoadNodes[k]] /\ "lon" \in DOMAIN cRoads[cRoadNodes[k]]
    /\ (AllRoadsLackCoordinates /\ cPc # "build") =>
           cError # "ValueError: KDTree data"

-----------------------------------------------------------------------------
(* Further properties of create_combined_graph *)

\* C15: after create_combined_graph returns, every tram, bus or train edge
\* (u,v) of the combined graph has a reverse edge (v,u), and a reverse that the
\* PT graph did not hold carries the attributes of (u,v).
C15_TransportEdgesHaveReverse ==
    mPc = "done" =>
        \A e \in DOMAIN mEdges :
            IsTransport(mEdges[e]) =>
                /\ has_edge(mEdges, e[2], e[1])
                /\ <<e[2], e[1]>> \notin DOMAIN mPt.edges =>
                       mEdges[<<e[2], e[1]>>] = mEdges[e]

\* the edges of the combined graph tagged car_to_pt_transfer
ConnectionEdges == {e \in DOMAIN mEdges : Get(mEdges[e], "edge_type") = "car_to_pt_transfer"}

\* C16: each connection record yields exactly one edge road_node -> station_id
\* with mode walk, edge_type car_to_pt_transfer, emissions 0, the record's
\* distance and the record's walk_time as time; the combined graph holds as
\* many car_to_pt_transfer edges as there are records.
C16_OneEdgePerConnectionRecord ==
    /\ mPc = "connections" =>
           /\ Cardinality(ConnectionEdges) = mCur.p - 1
           /\ mCount.connections_added = mCur.p - 1
    /\ mPc = "done" =>
           /\ Cardinality(ConnectionEdges) = Len(mConns)
           /\ \A k \in 1..Len(mConns) :
                  LET e == <<mConns[k].road_node, mConns[k].station_id>>
                  IN  /\ e \in DOMAIN mEdges
                      /\ mEdges[e].mode = "walk"
                      /\ mEdges[e].edge_type = "car_to_pt_transfer"
                      /\ mEdges[e].emissions = 0
                      /\ mEdges[e].distance = mConns[k].distance
                      /\ mEdges[e].time = mConns[k].walk_time

\* C16 witness: the merge returned with two connection records, one of them
\* on a pair that already had an edge, next to PT and car edges
C16_Witness ==
    /\ mPc = "done"
    /\ Len(mConns) = 2
    /\ \E k \in 1..2 : <<mConns[k].road_node, mConns[k].station_id>> \in DOMAIN mPt.edges
    /\ DOMAIN mCar.edges # {}
    /\ Cardinality(ConnectionEdges) = 2

\* C17: when the PT graph and the car graph share no node identifier, every
\* node and every edge of both graphs is in the combined graph under the same
\* identifier with the same attributes, from the step that adds it to the
\* return.
C17_SourceGraphsTakenVerbatim ==
    DisjointIds =>
        /\ mPc \notin {"idle", "start"} =>
               /\ \A n \in DOMAIN mPt.nodes :
                      n \in DOMAIN mNodes /\ mNodes[n] = mPt.nodes[n]
               /\ \A e \in DOMAIN mPt.edges :
                      e \in DOMAIN mEdges /\ mEdges[e] = mPt.edges[e]
        /\ mPc \in {"connections", "done"} =>
               /\ \A n \in DOMAIN mCar.nodes :
                      n \in DOMAIN mNodes /\ mNodes[n] = mCar.nodes[n]
               /\ \A e \in DOMAIN mCar.edges :
                      e \in DOMAIN mEdges /\ mEdges[e] = mCar.edges[e]

\* C17 witness: the merge of graphs without a shared identifier returned
\* after both backfill passes synthesized an edge, a car edge was added and a
\* connection was made
C17_Witness ==
    /\ mPc = "done"
    /\ DisjointIds
    /\ mCount.walking_edges_added > 0
    /\ mCount.reverse_edges_added > 0
    /\ mCount.connections_added > 0
    /\ DOMAIN mCar.edges # {}

\* C18: the combined graph is a directed multigraph; an edge inserted on an
\* ordered pair that already has an edge coexists with it and overwrites none
\* of its attributes, so every edge taken from a source graph is still in the
\* combined graph with its own attributes at the return, whatever was
\* inserted on its pair afterwards.
C18_ParallelEdgesCoexist ==
    mPc = "done" =>
        /\ \A e \in DOMAIN mPt.edges :
               e \in DOMAIN mEdges /\ mEdges[e] = mPt.edges[e]
        /\ \A e \in DOMAIN mCar.edges \ DOMAIN mPt.edges :
               e \in DOMAIN mEdges /\ mEdges[e] = mCar.edges[e]

\* C19: when a node identifier occurs in both the PT graph and the car graph,
\* create_combined_graph raises or aborts: it does not go on to the connection
\* edges and does not return a combined graph.
C19_SharedIdentifierIsRejected ==
    ~DisjointIds => mPc \notin {"connections", "done"}

-----------------------------------------------------------------------------
(* Properties of the walking connector and the merge together *)

\* time = distance / walking_speed and emissions = 0
WalkingTimeAndEmissions(data) ==
    /\ Get(data, "time") = WalkTime(Get(data, "distance"))
    /\ Get(data, "emissions") = 0

\* C20: every walk/pt_transfer edge in the graph when add_walking_edges has
\* returned, and every such edge of the combined graph after the merge of a PT
\* graph whose walking edges come from the connector, reverses synthesized by
\* pass 1 included, has time = distance / walking_speed and emissions = 0.
C20_WalkingEdgesTimeAndEmissions ==
    /\ wPc = "done" =>
           \A e \in DOMAIN wEdges :
               IsWalkTransfer(wEdges[e]) => WalkingTimeAndEmissions(wEdges[e])
    /\ mPc \notin {"idle", "start"} =>
           \A e \in DOMAIN mEdges :
               IsWalkTransfer(mEdges[e]) => WalkingTimeAndEmissions(mEdges[e])

\* C20 witness: the merge returned a graph in which pass 1 synthesized the
\* reverse of a walking edge of the connector
C20_Witness ==
    /\ mPc = "done"
    /\ \E x \in mSynth :
           /\ x.pass = 1
           /\ IsWalkTransfer(mEdges[x.edge])
           /\ mEdges[x.edge].distance > 0
           /\ <<x.edge[2], x.edge[1]>> \in DOMAIN mPt.edges

\* C21: in the stats of every successful add_walking_edges run, edges_added is
\* even and equals 2 * unique_pairs, and nodes_checked equals the number of
\* nodes that carry coordinates.
C21_StatsCountPairsAndNodes ==
    WalkSucceeded =>
        /\ wResult.edges_added % 2 = 0
        /\ wResult.edges_added = 2 * wResult.unique_pairs
        /\ wResult.nodes_checked = Cardinality({n \in DOMAIN wNodes : HasCoords(n)})

\* a successful run that added pairs on a graph with a node without coordinates
C21_Witness ==
    /\ WalkSucceeded
    /\ wResult.edges_added > 0
    /\ \E n \in DOMAIN wNodes : ~HasCoords(n)

\* C22: every edge that is in the graph before add_walking_edges and is not
\* tagged mode=walk, edge_type=pt_transfer is still in the graph afterwards
\* with exactly the same attributes, also when only one direction of the pair
\* pre-existed.
C22_ScheduledEdgesKeepTheirAttributes ==
    wPc = "done" =>
        \A e \in DOMAIN wPre :
            ~IsWalkTransfer(wPre[e]) => e \in DOMAIN wEdges /\ wEdges[e] = wPre[e]

\* the edges of E tagged mode=walk, edge_type=pt_transfer
WalkTransferEdges(E) == {e \in DOMAIN E : IsWalkTransfer(E[e])}

\* C23: after a successful add_walking_edges the number of edges tagged
\* walk/pt_transfer equals stats.edges_added (no directed edge is inserted
\* twice in one pass), and two stops within budget with no edge between them
\* after the clearing step get exactly the two edges A->B and B->A.
C23_EachDirectedEdgeInsertedOnce ==
    WalkSucceeded =>
        /\ Cardinality(WalkTransferEdges(wEdges)) = wResult.edges_added
        /\ \A u, v \in DOMAIN wNodes :
              (WithinBudget(u, v) /\ ~has_edge(wCleared, u, v) /\ ~has_edge(wCleared, v, u))
                  => IsWalkAt(wEdges, u, v) /\ IsWalkAt(wEdges, v, u)

\* C24: skipped_existing counts only pairs whose edge existed after the
\* clearing step: on a graph with no edge between any two candidate stops it is
\* 0 after the run (edges inserted earlier in the same pass are not counted).
C24_SkippedExistingCountsOnlyPriorEdges ==
    (WalkSucceeded /\ \A u, v \in DOMAIN wNodes :
                          (HasCoords(u) /\ HasCoords(v)) => ~has_edge(wCleared, u, v))
        => wResult.skipped_existing = 0

(* Properties that span the car-to-PT connector and the merge *)

C26_RoadDirectionalityPreserved ==
    mPc = "done" =>
        \A e \in DOMAIN mCar.edges :
            ~has_edge(mCar.edges, e[2], e[1]) => ~has_edge(mEdges, e[2], e[1])

\* the tram, bus and train edges of the PT graph whose reverse pair has no edge
\* in the PT graph
OneWayTransportEdges ==
    {e \in DOMAIN mPt.edges :
        IsTransport(mPt.edges[e]) /\ ~has_edge(mPt.edges, e[2], e[1])}

\* pass 2 has written a reverse for an edge that pass 2 itself had synthesized
ReversesSynthesizedEdge(before, after) ==
    \E s \in after \ before :
        /\ s.pass = 2
        /\ \E t \in before : t.pass = 2 /\ t.edge = <<s.edge[2], s.edge[1]>>

\* the edges pass 2 has yet to reach: the rest of the current node's out-edges
\* and the out-edges of the nodes after it
UnvisitedEdges ==
    LET nodes == NodeSeq(DOMAIN mNodes)
    IN  Cardinality({k \in 1..Len(mSeq) :
            \E i \in (mCur.p + 1)..Len(nodes) : nodes[i] = mSeq[k][1]})
        + (IF mCur.p <= Len(nodes)
           THEN Len(OutEdges(mSeq, nodes[mCur.p])) - mCur.q ELSE 0)

\* what is left of pass 2: the nodes and edges still to reach and the reverse
\* edges still to write
PassTwoVariant ==
    (Len(NodeSeq(DOMAIN mNodes)) + 1 - mCur.p)
    + UnvisitedEdges
    + Cardinality({e \in DOMAIN mEdges :
                      IsTransport(mEdges[e]) /\ ~has_edge(mEdges, e[2], e[1])})

\* C27: backfill pass 2 inserts reverse edges into the graph it iterates over;
\* the pass terminates (every step of the pass lowers a natural number that
\* bounds the steps left), a synthesized reverse edge never triggers a further
\* insertion, and reverse_edges_added equals the number of tram/bus/train edges
\* of the PT graph whose reverse pair had no edge.
C27_BackfillPassTerminates ==
    /\ [](mPc = "transport" => PassTwoVariant >= 0 /\ UnvisitedEdges >= 0)
    /\ [][mPc = "transport" /\ mPc' = "transport" => PassTwoVariant' < PassTwoVariant]_vars
    /\ [][~ReversesSynthesizedEdge(mSynth, mSynth')]_vars
    /\ [](mPc \in {"car", "connections", "done"} =>
              mCount.reverse_edges_added = Cardinality(OneWayTransportEdges))

\* pass 2 is over and has synthesized two reverse edges, one of them reached
\* by the iteration after it was inserted
C27_Witness ==
    /\ mPc = "car"
    /\ mCount.reverse_edges_added = 2
    /\ \E s \in mSynth :
          /\ s.pass = 2
          /\ \E i, j \in 1..Len(MergeNodeOrder) :
                i < j /\ MergeNodeOrder[i] = s.edge[2] /\ MergeNodeOrder[j] = s.edge[1]

\* C28: the merge creates no nodes of its own: the node set of the combined
\* graph equals the union of the node sets of the PT graph and the car graph,
\* for every connection list.
C28_MergeCreatesNoNodes ==
    mPc = "done" => DOMAIN mNodes = DOMAIN mPt.nodes \cup DOMAIN mCar.nodes

(* Properties of the main of the PT walking stage *)

\* C29: the PT graph file is rewritten only after add_walking_edges has
\* returned stats without an error key; when no_pt_nodes is reported or the
\* input file is missing, main returns without writing and the stored graph
\* is unchanged.
C29_GraphFileWrittenOnlyAfterSuccess ==
    [][/\ wFile' # wFile => (wPc = "done" /\ "error" \notin DOMAIN wResult /\ wPc' = "saved")
       /\ wPc' = "exit" => wFile' = wFile]_vars

\* main has returned after no_pt_nodes: the graph in memory has lost its old
\* walking edges, the stored graph still holds them and was never written
C29_Witness ==
    /\ wPc = "exit"
    /\ wResult = NoPtNodes
    /\ wFile.exists
    /\ wFile.writes = 0
    /\ wFile.edges # wEdges

=============================================================================
